---- MODULE Spec2Model ----
(***************************************************************************)
(* Model of scrape.py, the Canvas course archiver: main() walks            *)
(* courses -> modules -> items and materialises File and Page items under  *)
(* the output root; download_file, save_page_as_pdf and convert_docx_to_pdf*)
(* are the three writers.  The filesystem persists from one run of main()  *)
(* to the next.                                                            *)
(*                                                                         *)
(* Strings are sequences of tokens: a token is one character ("a", "?",    *)
(* ".") or an indivisible run of letters ("docx", "DOCX", "txt", "pdf").   *)
(* A path below the output root is the sequence of its non-empty segments. *)
(***************************************************************************)
EXTENDS Integers, Sequences, FiniteSets, TLC

\* ---------------------------------------------------------------- bounds
\* number of chunks response.iter_content may yield for one download
MaxChunks == 2
\* number of consecutive executions of main() on the same filesystem
MaxRuns == 2

\* ------------------------------------------------------- string helpers
\* characters pathvalidate removes from a file name
IllegalChars == {"?", "/"}

IsLegal(ch) == ch \notin IllegalChars

RECURSIVE RStrip(_)
\* str.rstrip(" .") as applied by pathvalidate on the universal platform
RStrip(s) ==
    IF s = <<>> THEN s
    ELSE IF s[Len(s)] \in {".", " "} THEN RStrip(SubSeq(s, 1, Len(s) - 1))
    ELSE s

\* pathvalidate.sanitize_filename: drop the illegal characters, then the
\* trailing dots and spaces; a name made only of those becomes ""
sanitize_filename(name) == RStrip(SelectSeq(name, IsLegal))

\* index of the last "." of s, 0 when there is none
LastDot(s) ==
    LET D == {k \in 1..Len(s) : s[k] = "."}
    IN  IF D = {} THEN 0 ELSE CHOOSE k \in D : \A j \in D : j <= k

\* os.path.splitext on a name without separators: <<root, ext>>; leading
\* dots do not start an extension
splitext(s) ==
    LET d == LastDot(s)
    IN  IF d > 0 /\ (\E k \in 1..(d - 1) : s[k] # ".")
        THEN <<SubSeq(s, 1, d - 1), SubSeq(s, d, Len(s))>>
        ELSE <<s, <<>>>>

LowerTok(ch) == IF ch = "DOCX" THEN "docx" ELSE ch

\* str.lower
lower(s) == [k \in 1..Len(s) |-> LowerTok(s[k])]

\* os.path.join below ABS_OUTPUT_PATH: empty segments add no component
JoinPath(segs) == SelectSeq(segs, LAMBDA x : x # <<>>)

OfficeExts == {<<".", "doc">>, <<".", "docx">>}

PdfExt == <<".", "pdf">>

\* ------------------------------------------------------ the remote state
Courses == <<"c1", "c2">>

ModulesOf == [c1 |-> <<"m1", "m2">>, c2 |-> <<"m3">>]

ItemsOf == [m1 |-> <<"i1", "i2">>, m2 |-> <<"i3">>, m3 |-> <<"i4">>]

Range(s) == {s[k] : k \in 1..Len(s)}

CourseIds == Range(Courses)

ModuleIds == UNION {Range(ModulesOf[c]) : c \in CourseIds}

ItemIds == UNION {Range(ItemsOf[m]) : m \in ModuleIds}

CourseOf(m) == CHOOSE c \in CourseIds : m \in Range(ModulesOf[c])

ModuleOf(i) == CHOOSE m \in ModuleIds : i \in Range(ItemsOf[m])

IndexOf(s, x) == CHOOSE k \in 1..Len(s) : s[k] = x

\* a course object without a name attribute
NoName == <<"<no name attribute>">>

Item(type, title, filename, body) ==
    [type |-> type, title |-> title, filename |-> filename, body |-> body]

DocxFile == Item("File", <<"a">>, <<"x", ".", "DOCX">>, "")

TxtFile == Item("File", <<"a", ".", "d">>, <<"x", ".", "txt">>, "")

PdfFile == Item("File", <<"a">>, <<"x", ".", "pdf">>, "")

FullPage == Item("Page", <<"a">>, <<>>, "html")

EmptyPage == Item("Page", <<"e">>, <<>>, "")

BadTitlePage == Item("Page", <<"?", "?">>, <<>>, "html")

BadTitleFile == Item("File", <<"?">>, <<"x", ".", "pdf">>, "")

LinkItem == Item("ExternalUrl", <<"l">>, <<>>, "")

OtherItem == Item("Assignment", <<"q">>, <<>>, "")

Remote(cname1, mname2, t1, t2, t3, t4) ==
    [cname |-> [c \in CourseIds |-> IF c = "c1" THEN cname1 ELSE <<"b">>],
     mname |-> [m \in ModuleIds |-> IF m = "m2" THEN mname2 ELSE <<"a">>],
     item  |-> [i \in ItemIds |->
                  CASE i = "i1" -> t1 [] i = "i2" -> t2
                    [] i = "i3" -> t3 [] OTHER -> t4]]

\* the listings the remote API may hold; unchanged for the whole behaviour:
\* ordinary names with varied items, and odd names with fixed items
RemoteStates ==
    {Remote(<<"a">>, <<"b">>, t1, t2, OtherItem, FullPage) :
        t1 \in {DocxFile, PdfFile, EmptyPage, LinkItem},
        t2 \in {DocxFile, FullPage}}
    \cup
    {Remote(<<"a">>, <<"b">>, BadTitleFile, BadTitlePage, OtherItem,
            FullPage),
     Remote(<<"?">>, <<"?", ".">>, TxtFile, FullPage, OtherItem,
            BadTitlePage),
     Remote(NoName, <<"b">>, TxtFile, FullPage, OtherItem, BadTitlePage)}

\* ---------------------------------------------------------------- state
VARIABLES
    remote,     \* what the Canvas API lists (courses, modules, items)
    pandoc,     \* TRUE when a pandoc binary is installed on the machine
    fs,         \* files below the output root: path -> [by, run, st]
    dirs,       \* directories below the output root
    run,        \* ordinal of the current execution of main()
    pc,         \* position of main()
    ci, mi, ii, \* indexes of the three nested for loops
    written,    \* chunks written by the running download_file
    dlResult,   \* value returned by the last download_file call
    calls,      \* <<item, function>> calls made in this run
    skipped,    \* items for which this run printed [SKIP]
    failed,     \* items for which this run printed [FAIL] or [ERROR]
    visited,    \* items the item loop of this run reached
    reachedCourses, \* courses the course loop of this run reached
    reachedMods,    \* modules the module loop of this run reached
    courseErr,  \* courses whose get_modules() raised in this run
    moduleErr,  \* <<module, call>>: makedirs or get_module_items raised
    warned,     \* courses for which this run printed [WARN]
    bootstraps, \* download_pandoc() calls of this run
    fsPrev,     \* the files that existed when the previous run ended
    authed,     \* TRUE once this run holds the authenticated user (line 82)
    clean       \* TRUE while no call has raised in any run so far

loopvars == <<ci, mi, ii>>

envvars == <<remote, pandoc>>

histvars == <<calls, skipped, failed, visited, reachedCourses, reachedMods,
              courseErr, moduleErr, warned, bootstraps>>

vars == <<remote, pandoc, fs, dirs, run, pc, ci, mi, ii, written, dlResult,
          calls, skipped, failed, visited, reachedCourses, reachedMods,
          courseErr, moduleErr, warned, bootstraps, fsPrev, authed, clean>>

\* ------------------------------------------------- names and target paths
\* line 99
SafeCourseName(c) == sanitize_filename(remote.cname[c])

\* line 105
SafeModuleName(m) == sanitize_filename(remote.mname[m])

\* line 106, relative to ABS_OUTPUT_PATH
TargetDir(m) == JoinPath(<<SafeCourseName(CourseOf(m)), SafeModuleName(m)>>)

\* line 111 mutated: the fallback name does not carry the item's id
SafeTitleNoId(i) ==
    LET s == sanitize_filename(remote.item[i].title)
    IN  IF s # <<>> THEN s ELSE <<"item_">>

\* line 111: sanitize_filename(item.title) or f"item_{item.id}"
SafeTitle(i) ==
    LET s == sanitize_filename(remote.item[i].title)
    IN  IF s # <<>> THEN s ELSE <<"item_", i>>

\* lines 117 and 132
CleanTitle(i) == splitext(SafeTitle(i))[1]

\* line 116
FileExt(i) == lower(splitext(remote.item[i].filename)[2])

\* line 118 for a File item, line 133 for a Page item
SavePath(i) ==
    IF remote.item[i].type = "Page"
    THEN TargetDir(ModuleOf(i)) \o <<CleanTitle(i) \o PdfExt>>
    ELSE TargetDir(ModuleOf(i)) \o <<CleanTitle(i) \o FileExt(i)>>

\* line 119
PdfPath(i) == TargetDir(ModuleOf(i)) \o <<CleanTitle(i) \o PdfExt>>

\* line 71: os.path.splitext(docx_path)[0] + ".pdf"
ConvertedPath(docx_path) ==
    LET n == Len(docx_path)
    IN  SubSeq(docx_path, 1, n - 1) \o <<splitext(docx_path[n])[1] \o PdfExt>>

\* os.path.exists
PathExists(p) == p \in DOMAIN fs \/ p \in dirs

Prefixes(p) == {SubSeq(p, 1, k) : k \in 0..Len(p)}

\* the file written at p by item i in the current run
NewFile(i, st) == [by |-> i, run |-> run, st |-> st]

WriteFile(files, p, rec) ==
    [q \in DOMAIN files \cup {p} |-> IF q = p THEN rec ELSE files[q]]

\* os.remove
RemoveFile(files, p) == [q \in DOMAIN files \ {p} |-> files[q]]

CurCourse == Courses[ci]

CurModule == ModulesOf[CurCourse][mi]

CurItem == ItemsOf[CurModule][ii]

\* ------------------------------------------------------------ initially
Init ==
    /\ remote \in RemoteStates
    /\ pandoc \in BOOLEAN
    /\ fs = <<>>
    /\ dirs = {}
    /\ run = 1
    /\ pc = "start"
    /\ ci = 1 /\ mi = 1 /\ ii = 1
    /\ written = 0
    /\ dlResult = FALSE
    /\ calls = {} /\ skipped = {} /\ failed = {} /\ visited = {}
    /\ reachedCourses = {} /\ reachedMods = {}
    /\ courseErr = {} /\ moduleErr = {} /\ warned = {}
    /\ bootstraps = 0
    /\ fsPrev = <<>>
    /\ authed = FALSE
    /\ clean = TRUE

\* ------------------------------------------------- main(): lines 78 - 95
\* lines 80-84: init_canvas() and get_current_user() succeed
AuthOk ==
    /\ pc = "start"
    /\ authed' = TRUE
    /\ pc' = "pandoc"
    /\ UNCHANGED <<envvars, fs, dirs, run, loopvars, written, dlResult,
                   histvars, fsPrev, clean>>

\* lines 85-87 mutated: the handler prints but does not return
AuthFailNoReturn ==
    /\ pc = "start"
    /\ pc' = "pandoc"
    /\ UNCHANGED <<envvars, authed, fs, dirs, run, loopvars, written, dlResult,
                   histvars, fsPrev>>
    /\ clean' = FALSE

\* lines 85-87: authentication raises; main() returns
AuthFail ==
    /\ pc = "start"
    /\ pc' = "auth_failed"
    /\ UNCHANGED <<envvars, authed, fs, dirs, run, loopvars, written, dlResult,
                   histvars, fsPrev>>
    /\ clean' = FALSE

\* lines 89-93 mutated: download_pandoc() is called whether or not the
\* binary is found
PandocPresentBootstraps ==
    /\ pc = "pandoc"
    /\ pandoc
    /\ bootstraps' = bootstraps + 1
    /\ pc' = "get_courses"
    /\ UNCHANGED <<envvars, authed, fs, dirs, run, loopvars, written,
                   dlResult, calls, skipped, failed, visited, reachedCourses,
                   reachedMods, courseErr, moduleErr, warned, fsPrev, clean>>

\* line 90: get_pandoc_version() finds the binary
PandocPresent ==
    /\ pc = "pandoc"
    /\ pandoc
    /\ pc' = "get_courses"
    /\ UNCHANGED <<envvars, authed, fs, dirs, run, loopvars, written, dlResult,
                   histvars, fsPrev, clean>>

\* lines 91-93: OSError, download_pandoc() installs the binary
PandocBootstrap ==
    /\ pc = "pandoc"
    /\ ~pandoc
    /\ pandoc' = TRUE
    /\ bootstraps' = bootstraps + 1
    /\ pc' = "get_courses"
    /\ UNCHANGED <<remote, authed, fs, dirs, run, loopvars, written, dlResult,
                   calls, skipped, failed, visited, reachedCourses,
                   reachedMods, courseErr, moduleErr, warned, fsPrev, clean>>

\* line 93: download_pandoc() raises; nothing catches it
PandocBootstrapFail ==
    /\ pc = "pandoc"
    /\ ~pandoc
    /\ bootstraps' = bootstraps + 1
    /\ pc' = "crashed"
    /\ UNCHANGED <<envvars, authed, fs, dirs, run, loopvars, written, dlResult,
                   calls, skipped, failed, visited, reachedCourses,
                   reachedMods, courseErr, moduleErr, warned, fsPrev>>
    /\ clean' = FALSE

\* line 95: the course listing is fetched
GetCoursesOk ==
    /\ pc = "get_courses"
    /\ pc' = "course_loop"
    /\ ci' = 1
    /\ UNCHANGED <<envvars, authed, fs, dirs, run, mi, ii, written, dlResult,
                   histvars, fsPrev, clean>>

\* line 95: get_courses() raises outside of every try block
GetCoursesFail ==
    /\ pc = "get_courses"
    /\ pc' = "crashed"
    /\ UNCHANGED <<envvars, authed, fs, dirs, run, loopvars, written, dlResult,
                   histvars, fsPrev>>
    /\ clean' = FALSE

\* ------------------------------------------------ main(): lines 97 - 109
\* line 97: the course listing is exhausted; lines 147-148 print the summary
CoursesDone ==
    /\ pc = "course_loop"
    /\ ci > Len(Courses)
    /\ pc' = "done"
    /\ UNCHANGED <<envvars, authed, fs, dirs, run, loopvars, written, dlResult,
                   histvars, fsPrev, clean>>

\* line 98: a course without a name is passed over
CourseNoName ==
    /\ pc = "course_loop"
    /\ ci <= Len(Courses)
    /\ remote.cname[CurCourse] = NoName
    /\ reachedCourses' = reachedCourses \cup {CurCourse}
    /\ ci' = ci + 1
    /\ UNCHANGED <<envvars, authed, fs, dirs, run, pc, mi, ii, written, dlResult,
                   calls, skipped, failed, visited, reachedMods, courseErr,
                   moduleErr, warned, bootstraps, fsPrev, clean>>

\* lines 99-102: the course is entered
CourseEnter ==
    /\ pc = "course_loop"
    /\ ci <= Len(Courses)
    /\ remote.cname[CurCourse] # NoName
    /\ reachedCourses' = reachedCourses \cup {CurCourse}
    /\ pc' = "get_modules"
    /\ UNCHANGED <<envvars, authed, fs, dirs, run, loopvars, written, dlResult,
                   calls, skipped, failed, visited, reachedMods, courseErr,
                   moduleErr, warned, bootstraps, fsPrev, clean>>

\* the course handler mutated: the exception is raised again
CourseExceptReraise ==
    /\ warned' = warned \cup {CurCourse}
    /\ pc' = "crashed"
    /\ UNCHANGED loopvars

\* lines 144-145: except Exception of the course's try block; the course
\* loop goes on with the next course
CourseExcept ==
    /\ warned' = warned \cup {CurCourse}
    /\ ci' = ci + 1
    /\ pc' = "course_loop"
    /\ UNCHANGED <<mi, ii>>

\* line 103: the module listing is fetched
GetModulesOk ==
    /\ pc = "get_modules"
    /\ mi' = 1
    /\ pc' = "module_loop"
    /\ UNCHANGED <<envvars, authed, fs, dirs, run, ci, ii, written, dlResult,
                   histvars, fsPrev, clean>>

\* line 103: get_modules() raises
GetModulesFail ==
    /\ pc = "get_modules"
    /\ courseErr' = courseErr \cup {CurCourse}
    /\ CourseExcept
    /\ UNCHANGED <<envvars, authed, fs, dirs, run, written, dlResult, calls, skipped,
                   failed, visited, reachedCourses, reachedMods, moduleErr,
                   bootstraps, fsPrev>>
    /\ clean' = FALSE

\* line 104: the module listing is exhausted
ModulesDone ==
    /\ pc = "module_loop"
    /\ mi > Len(ModulesOf[CurCourse])
    /\ ci' = ci + 1
    /\ pc' = "course_loop"
    /\ UNCHANGED <<envvars, authed, fs, dirs, run, mi, ii, written, dlResult,
                   histvars, fsPrev, clean>>

\* os.makedirs(target_dir, exist_ok=True) fails when a component of
\* target_dir is a regular file
MakedirsBlocked(d) == \E q \in Prefixes(d) : q \in DOMAIN fs

\* lines 105-107: the module directory is created if absent
ModuleEnter ==
    /\ pc = "module_loop"
    /\ mi <= Len(ModulesOf[CurCourse])
    /\ ~MakedirsBlocked(TargetDir(CurModule))
    /\ reachedMods' = reachedMods \cup {CurModule}
    /\ dirs' = dirs \cup Prefixes(TargetDir(CurModule))
    /\ pc' = "get_items"
    /\ UNCHANGED <<envvars, authed, fs, run, loopvars, written, dlResult, calls,
                   skipped, failed, visited, reachedCourses, courseErr,
                   moduleErr, warned, bootstraps, fsPrev, clean>>

\* line 107: makedirs raises (a component is a regular file, or any other
\* OSError), caught at line 144
ModuleEnterFail ==
    /\ pc = "module_loop"
    /\ mi <= Len(ModulesOf[CurCourse])
    /\ reachedMods' = reachedMods \cup {CurModule}
    /\ moduleErr' = moduleErr \cup {<<CurModule, "makedirs">>}
    /\ CourseExcept
    /\ UNCHANGED <<envvars, authed, fs, dirs, run, written, dlResult, calls, skipped,
                   failed, visited, reachedCourses, courseErr, bootstraps,
                   fsPrev>>
    /\ clean' = FALSE

\* line 109: the item listing is fetched
GetItemsOk ==
    /\ pc = "get_items"
    /\ ii' = 1
    /\ pc' = "item_loop"
    /\ UNCHANGED <<envvars, authed, fs, dirs, run, ci, mi, written, dlResult,
                   histvars, fsPrev, clean>>

\* line 109: get_module_items() raises; the nearest handler is the
\* course's, at line 144
GetItemsFail ==
    /\ pc = "get_items"
    /\ moduleErr' = moduleErr \cup {<<CurModule, "get_module_items">>}
    /\ CourseExcept
    /\ UNCHANGED <<envvars, authed, fs, dirs, run, written, dlResult, calls, skipped,
                   failed, visited, reachedCourses, reachedMods, courseErr,
                   bootstraps, fsPrev>>
    /\ clean' = FALSE

\* ----------------------------------------------- main(): lines 110 - 142
\* line 110: the item listing is exhausted
ItemsDone ==
    /\ pc = "item_loop"
    /\ ii > Len(ItemsOf[CurModule])
    /\ mi' = mi + 1
    /\ pc' = "module_loop"
    /\ UNCHANGED <<envvars, authed, fs, dirs, run, ci, ii, written, dlResult,
                   histvars, fsPrev, clean>>

\* the File probe mutated: only the original-extension path is looked at
FileProbeSourceOnly(save_path, pdf_path, ext) == PathExists(save_path)

\* the File probe mutated: nothing is ever found
FileProbeNever(save_path, pdf_path, ext) == FALSE

\* line 121: the existence probe of a File item
FileProbe(save_path, pdf_path, ext) ==
    PathExists(save_path) \/ (ext \in OfficeExts /\ PathExists(pdf_path))

\* the Page probe mutated: nothing is ever found
PageProbeNever(save_path) == FALSE

\* line 135: the existence probe of a Page item
PageProbe(save_path) == PathExists(save_path)

\* the item handler mutated: the exception leaves the item loop
ItemExceptPropagate ==
    /\ failed' = failed \cup {CurItem}
    /\ warned' = warned \cup {CurCourse}
    /\ ci' = ci + 1
    /\ pc' = "course_loop"
    /\ UNCHANGED <<mi, ii>>

\* lines 128-129 and 139-140: except Exception of the item's try block;
\* the item loop goes on with the next item
ItemExcept ==
    /\ failed' = failed \cup {CurItem}
    /\ ii' = ii + 1
    /\ pc' = "item_loop"
    /\ UNCHANGED <<ci, mi, warned>>

\* lines 113-123: a File item whose probe finds an artifact is skipped
FileSkip ==
    /\ pc = "item_loop"
    /\ ii <= Len(ItemsOf[CurModule])
    /\ remote.item[CurItem].type = "File"
    /\ FileProbe(SavePath(CurItem), PdfPath(CurItem), FileExt(CurItem))
    /\ visited' = visited \cup {CurItem}
    /\ skipped' = skipped \cup {CurItem}
    /\ ii' = ii + 1
    /\ UNCHANGED <<envvars, authed, fs, dirs, run, pc, ci, mi, written, dlResult,
                   calls, failed, reachedCourses, reachedMods, courseErr,
                   moduleErr, warned, bootstraps, fsPrev, clean>>

\* lines 113-125: a File item whose probe finds nothing; download_file is
\* called
FileFetch ==
    /\ pc = "item_loop"
    /\ ii <= Len(ItemsOf[CurModule])
    /\ remote.item[CurItem].type = "File"
    /\ ~FileProbe(SavePath(CurItem), PdfPath(CurItem), FileExt(CurItem))
    /\ visited' = visited \cup {CurItem}
    /\ calls' = calls \cup {<<CurItem, "download_file">>}
    /\ written' = 0
    /\ pc' = "dl_start"
    /\ UNCHANGED <<envvars, authed, fs, dirs, run, loopvars, dlResult, skipped,
                   failed, reachedCourses, reachedMods, courseErr, moduleErr,
                   warned, bootstraps, fsPrev, clean>>

\* line 115: course.get_file() raises
FileLookupFail ==
    /\ pc = "item_loop"
    /\ ii <= Len(ItemsOf[CurModule])
    /\ remote.item[CurItem].type = "File"
    /\ visited' = visited \cup {CurItem}
    /\ ItemExcept
    /\ UNCHANGED <<envvars, authed, fs, dirs, run, written, dlResult, calls, skipped,
                   reachedCourses, reachedMods, courseErr, moduleErr,
                   bootstraps, fsPrev>>
    /\ clean' = FALSE

\* lines 131-135, 141-142: a Page item whose output exists is skipped
PageSkip ==
    /\ pc = "item_loop"
    /\ ii <= Len(ItemsOf[CurModule])
    /\ remote.item[CurItem].type = "Page"
    /\ PageProbe(SavePath(CurItem))
    /\ visited' = visited \cup {CurItem}
    /\ skipped' = skipped \cup {CurItem}
    /\ ii' = ii + 1
    /\ UNCHANGED <<envvars, authed, fs, dirs, run, pc, ci, mi, written, dlResult,
                   calls, failed, reachedCourses, reachedMods, courseErr,
                   moduleErr, warned, bootstraps, fsPrev, clean>>

\* lines 131-137: a Page item whose output is absent; the page is fetched
PageFetch ==
    /\ pc = "item_loop"
    /\ ii <= Len(ItemsOf[CurModule])
    /\ remote.item[CurItem].type = "Page"
    /\ ~PageProbe(SavePath(CurItem))
    /\ visited' = visited \cup {CurItem}
    /\ pc' = "render"
    /\ UNCHANGED <<envvars, authed, fs, dirs, run, loopvars, written, dlResult, calls,
                   skipped, failed, reachedCourses, reachedMods, courseErr,
                   moduleErr, warned, bootstraps, fsPrev, clean>>

\* line 137: course.get_page() raises
PageLookupFail ==
    /\ pc = "item_loop"
    /\ ii <= Len(ItemsOf[CurModule])
    /\ remote.item[CurItem].type = "Page"
    /\ ~PageProbe(SavePath(CurItem))
    /\ visited' = visited \cup {CurItem}
    /\ ItemExcept
    /\ UNCHANGED <<envvars, authed, fs, dirs, run, written, dlResult, calls, skipped,
                   reachedCourses, reachedMods, courseErr, moduleErr,
                   bootstraps, fsPrev>>
    /\ clean' = FALSE

\* lines 113, 131: an item that is neither a File nor a Page falls through
\* both branches
OtherItemPass ==
    /\ pc = "item_loop"
    /\ ii <= Len(ItemsOf[CurModule])
    /\ remote.item[CurItem].type \notin {"File", "Page"}
    /\ visited' = visited \cup {CurItem}
    /\ ii' = ii + 1
    /\ UNCHANGED <<envvars, authed, fs, dirs, run, pc, ci, mi, written, dlResult,
                   calls, skipped, failed, reachedCourses, reachedMods,
                   courseErr, moduleErr, warned, bootstraps, fsPrev, clean>>

\* ------------------------------------------ download_file: lines 40 - 59
\* the handler's cleanup mutated: the partial file is left behind
DlCleanupKeep(files, filepath) == files

\* line 58: if os.path.exists(filepath): os.remove(filepath)
DlCleanup(files, filepath) ==
    IF filepath \in DOMAIN files THEN RemoveFile(files, filepath) ELSE files

\* lines 56-59: except Exception; the call returns False
DlExcept ==
    /\ failed' = failed \cup {CurItem}
    /\ fs' = DlCleanup(fs, SavePath(CurItem))
    /\ dlResult' = FALSE
    /\ pc' = "after_download"
    /\ UNCHANGED <<envvars, authed, dirs, run, loopvars, written, calls, skipped,
                   visited, reachedCourses, reachedMods, courseErr, moduleErr,
                   warned, bootstraps, fsPrev>>
    /\ clean' = FALSE

\* lines 42-44: the request is answered with a success status and
\* open(filepath, 'wb') creates or truncates the file
DlStartOk ==
    /\ pc = "dl_start"
    /\ SavePath(CurItem) \notin dirs
    /\ fs' = WriteFile(fs, SavePath(CurItem), NewFile(CurItem, "partial"))
    /\ pc' = "dl_write"
    /\ UNCHANGED <<envvars, authed, dirs, run, loopvars, written, dlResult, histvars,
                   fsPrev, clean>>

\* lines 42-44: requests.get, raise_for_status or open raises
DlStartFail ==
    /\ pc = "dl_start"
    /\ DlExcept

\* lines 52-54: one chunk is received and written
DlWriteChunk ==
    /\ pc = "dl_write"
    /\ written < MaxChunks
    /\ written' = written + 1
    /\ UNCHANGED <<envvars, authed, fs, dirs, run, pc, loopvars, dlResult, histvars,
                   fsPrev, clean>>

\* lines 52-54: iter_content or f.write raises in the middle of the stream
DlWriteFail ==
    /\ pc = "dl_write"
    /\ DlExcept

\* lines 52-55: the stream ends, the file is closed, the call returns True
DlFinish ==
    /\ pc = "dl_write"
    /\ fs' = WriteFile(fs, SavePath(CurItem), NewFile(CurItem, "complete"))
    /\ dlResult' = TRUE
    /\ pc' = "after_download"
    /\ UNCHANGED <<envvars, authed, dirs, run, loopvars, written, histvars, fsPrev, clean>>

\* line 125: download_file returned False, or line 126: no conversion is
\* needed
AfterDownloadNext ==
    /\ pc = "after_download"
    /\ ~dlResult \/ FileExt(CurItem) \notin OfficeExts
    /\ ii' = ii + 1
    /\ pc' = "item_loop"
    /\ UNCHANGED <<envvars, authed, fs, dirs, run, ci, mi, written, dlResult,
                   histvars, fsPrev, clean>>

\* lines 125-127 mutated: the result of download_file is not tested
AfterDownloadConvertAlways ==
    /\ pc = "after_download"
    /\ FileExt(CurItem) \in OfficeExts
    /\ calls' = calls \cup {<<CurItem, "convert_docx_to_pdf">>}
    /\ pc' = "convert"
    /\ UNCHANGED <<envvars, authed, fs, dirs, run, loopvars, written,
                   dlResult, skipped, failed, visited, reachedCourses,
                   reachedMods, courseErr, moduleErr, warned, bootstraps,
                   fsPrev, clean>>

\* lines 125-127: the download succeeded and the file is an office
\* document; convert_docx_to_pdf is called
AfterDownloadConvert ==
    /\ pc = "after_download"
    /\ dlResult
    /\ FileExt(CurItem) \in OfficeExts
    /\ calls' = calls \cup {<<CurItem, "convert_docx_to_pdf">>}
    /\ pc' = "convert"
    /\ UNCHANGED <<envvars, authed, fs, dirs, run, loopvars, written, dlResult,
                   skipped, failed, visited, reachedCourses, reachedMods,
                   courseErr, moduleErr, warned, bootstraps, fsPrev, clean>>

\* ------------------------------------ convert_docx_to_pdf: lines 70 - 76
\* lines 73-74: pandoc writes the .pdf next to the source
ConvertOk ==
    /\ pc = "convert"
    /\ fs' = WriteFile(fs, ConvertedPath(SavePath(CurItem)),
                       NewFile(CurItem, "complete"))
    /\ ii' = ii + 1
    /\ pc' = "item_loop"
    /\ UNCHANGED <<envvars, authed, dirs, run, ci, mi, written, dlResult, histvars,
                   fsPrev, clean>>

\* lines 75-76 mutated: the handler also removes the downloaded source
ConvertFailDropsSource ==
    /\ pc = "convert"
    /\ failed' = failed \cup {CurItem}
    /\ ii' = ii + 1
    /\ pc' = "item_loop"
    /\ fs' = RemoveFile(fs, SavePath(CurItem))
    /\ UNCHANGED <<envvars, authed, dirs, run, ci, mi, written, dlResult, calls,
                   skipped, visited, reachedCourses, reachedMods, courseErr,
                   moduleErr, warned, bootstraps, fsPrev>>
    /\ clean' = FALSE

\* lines 75-76: the conversion raises before any output is written
ConvertFail ==
    /\ pc = "convert"
    /\ failed' = failed \cup {CurItem}
    /\ ii' = ii + 1
    /\ pc' = "item_loop"
    /\ UNCHANGED <<envvars, authed, fs, dirs, run, ci, mi, written, dlResult, calls,
                   skipped, visited, reachedCourses, reachedMods, courseErr,
                   moduleErr, warned, bootstraps, fsPrev>>
    /\ clean' = FALSE

\* lines 75-76: the conversion raises after the backend began to write the
\* output; the handler only prints
ConvertFailPartial ==
    /\ pc = "convert"
    /\ failed' = failed \cup {CurItem}
    /\ fs' = WriteFile(fs, ConvertedPath(SavePath(CurItem)),
                       NewFile(CurItem, "partial"))
    /\ ii' = ii + 1
    /\ pc' = "item_loop"
    /\ UNCHANGED <<envvars, authed, dirs, run, ci, mi, written, dlResult, calls,
                   skipped, visited, reachedCourses, reachedMods, courseErr,
                   moduleErr, warned, bootstraps, fsPrev>>
    /\ clean' = FALSE

\* --------------------------------------- save_page_as_pdf: lines 61 - 68
\* line 63 mutated: a page without a body is rendered to an empty file
RenderEmptyWrites ==
    /\ pc = "render"
    /\ remote.item[CurItem].body = ""
    /\ calls' = calls \cup {<<CurItem, "save_page_as_pdf">>}
    /\ ii' = ii + 1
    /\ pc' = "item_loop"
    /\ fs' = WriteFile(fs, SavePath(CurItem), NewFile(CurItem, "complete"))
    /\ UNCHANGED <<envvars, authed, dirs, run, ci, mi, written, dlResult, skipped,
                   failed, visited, reachedCourses, reachedMods, courseErr,
                   moduleErr, warned, bootstraps, fsPrev, clean>>

\* line 63: the page has no body; nothing is written, nothing is printed
RenderEmpty ==
    /\ pc = "render"
    /\ remote.item[CurItem].body = ""
    /\ calls' = calls \cup {<<CurItem, "save_page_as_pdf">>}
    /\ ii' = ii + 1
    /\ pc' = "item_loop"
    /\ UNCHANGED <<envvars, authed, fs, dirs, run, ci, mi, written, dlResult, skipped,
                   failed, visited, reachedCourses, reachedMods, courseErr,
                   moduleErr, warned, bootstraps, fsPrev, clean>>

\* lines 64-66: the page is rendered to output_path
RenderOk ==
    /\ pc = "render"
    /\ remote.item[CurItem].body # ""
    /\ calls' = calls \cup {<<CurItem, "save_page_as_pdf">>}
    /\ fs' = WriteFile(fs, SavePath(CurItem), NewFile(CurItem, "complete"))
    /\ ii' = ii + 1
    /\ pc' = "item_loop"
    /\ UNCHANGED <<envvars, authed, dirs, run, ci, mi, written, dlResult, skipped,
                   failed, visited, reachedCourses, reachedMods, courseErr,
                   moduleErr, warned, bootstraps, fsPrev, clean>>

\* lines 67-68: write_pdf raises before any output is written
RenderFail ==
    /\ pc = "render"
    /\ remote.item[CurItem].body # ""
    /\ calls' = calls \cup {<<CurItem, "save_page_as_pdf">>}
    /\ failed' = failed \cup {CurItem}
    /\ ii' = ii + 1
    /\ pc' = "item_loop"
    /\ UNCHANGED <<envvars, authed, fs, dirs, run, ci, mi, written, dlResult, skipped,
                   visited, reachedCourses, reachedMods, courseErr, moduleErr,
                   warned, bootstraps, fsPrev>>
    /\ clean' = FALSE

\* lines 67-68: write_pdf raises after it began to write output_path; the
\* handler only prints
RenderFailPartial ==
    /\ pc = "render"
    /\ remote.item[CurItem].body # ""
    /\ calls' = calls \cup {<<CurItem, "save_page_as_pdf">>}
    /\ failed' = failed \cup {CurItem}
    /\ fs' = WriteFile(fs, SavePath(CurItem), NewFile(CurItem, "partial"))
    /\ ii' = ii + 1
    /\ pc' = "item_loop"
    /\ UNCHANGED <<envvars, authed, dirs, run, ci, mi, written, dlResult, skipped,
                   visited, reachedCourses, reachedMods, courseErr, moduleErr,
                   warned, bootstraps, fsPrev>>
    /\ clean' = FALSE

\* ------------------------------------------------- the process as a whole
Running == pc \notin {"done", "auth_failed", "crashed", "interrupted"}

\* an interrupt signal raises KeyboardInterrupt, which no except Exception
\* clause catches; the process ends where it stands
Interrupt ==
    /\ Running
    /\ pc' = "interrupted"
    /\ UNCHANGED <<envvars, authed, fs, dirs, run, loopvars, written, dlResult,
                   histvars, fsPrev, clean>>

\* main() is executed again on the filesystem the finished run left
NextRun ==
    /\ pc = "done"
    /\ run < MaxRuns
    /\ run' = run + 1
    /\ fsPrev' = fs
    /\ pc' = "start"
    /\ ci' = 1 /\ mi' = 1 /\ ii' = 1
    /\ written' = 0
    /\ dlResult' = FALSE
    /\ calls' = {} /\ skipped' = {} /\ failed' = {} /\ visited' = {}
    /\ reachedCourses' = {} /\ reachedMods' = {}
    /\ courseErr' = {} /\ moduleErr' = {} /\ warned' = {}
    /\ bootstraps' = 0
    /\ authed' = FALSE
    /\ UNCHANGED <<envvars, fs, dirs, clean>>

Next ==
    \/ AuthOk \/ AuthFail
    \/ PandocPresent \/ PandocBootstrap \/ PandocBootstrapFail
    \/ GetCoursesOk \/ GetCoursesFail
    \/ CoursesDone \/ CourseNoName \/ CourseEnter
    \/ GetModulesOk \/ GetModulesFail
    \/ ModulesDone \/ ModuleEnter \/ ModuleEnterFail
    \/ GetItemsOk \/ GetItemsFail
    \/ ItemsDone
    \/ FileSkip \/ FileFetch \/ FileLookupFail
    \/ PageSkip \/ PageFetch \/ PageLookupFail
    \/ OtherItemPass
    \/ DlStartOk \/ DlStartFail
    \/ DlWriteChunk \/ DlWriteFail \/ DlFinish
    \/ AfterDownloadNext \/ AfterDownloadConvert
    \/ ConvertOk \/ ConvertFail \/ ConvertFailPartial
    \/ RenderEmpty \/ RenderOk \/ RenderFail \/ RenderFailPartial
    \/ Interrupt
    \/ NextRun

Spec == Init /\ [][Next]_vars

TypeOK ==
    /\ run \in 1..MaxRuns
    /\ written \in 0..MaxChunks
    /\ \A p \in DOMAIN fs : fs[p].st \in {"partial", "complete"}

\* --------------------------------------------------- auxiliary predicates
IsFile(i) == remote.item[i].type = "File"

IsPage(i) == remote.item[i].type = "Page"

IsOffice(i) == IsFile(i) /\ FileExt(i) \in OfficeExts

\* the paths at which item i may leave a file
Targets(i) ==
    IF IsPage(i) THEN {SavePath(i)}
    ELSE IF IsOffice(i) THEN {SavePath(i), PdfPath(i)}
    ELSE IF IsFile(i) THEN {SavePath(i)}
    ELSE {}

\* the probe of item i would have found an artifact among the files f
ArtifactIn(f, i) ==
    \/ (IsFile(i) \/ IsPage(i)) /\ SavePath(i) \in DOMAIN f
    \/ IsOffice(i) /\ PdfPath(i) \in DOMAIN f

CallsOf(i) == {c \in calls : c[1] = i}

LaterIn(s, x) == {s[k] : k \in (IndexOf(s, x) + 1)..Len(s)}

Between(s, x, y) ==
    {s[k] : k \in (IndexOf(s, x) + 1)..(IndexOf(s, y) - 1)}

\* the course loop has left course c in this run
CourseLeft(c) == pc = "done" \/ ci > IndexOf(Courses, c)

InDownload == pc \in {"dl_start", "dl_write"}

\* main() is inside the item loop of some module (lines 110-142)
InItemLoop ==
    pc \in {"item_loop", "dl_start", "dl_write", "after_download", "convert",
            "render"}

\* ------------------------------------------------------------------- C1
\* C1 as stated: in a run of main() that follows a completed run in which
\* no call raised, and in which no call raises either, download_file,
\* convert_docx_to_pdf and save_page_as_pdf are never called and every
\* File or Page item the run reaches is resolved as Skipped.
C1_Original ==
    (run > 1 /\ clean) =>
        /\ calls = {}
        /\ \A i \in visited : (IsFile(i) \/ IsPage(i)) => i \in skipped

\* C1 as amended: in a run that follows a completed run, no call to
\* download_file, convert_docx_to_pdf or save_page_as_pdf is made for an
\* item for which the earlier run left a file at its target path (or, for
\* a .doc/.docx item, at the .pdf path), and such an item is Skipped
\* whenever its probe is evaluated; an item without such a file (a page
\* with an empty body, a failed download or rendering, an abandoned
\* module) is attempted again.
C1_Idempotence ==
    run > 1 =>
        \A i \in ItemIds :
            ArtifactIn(fsPrev, i) =>
                /\ CallsOf(i) = {}
                /\ (i \in visited /\ i \notin failed) => i \in skipped

\* a second run has finished, it skipped an item archived by the first
\* run and it called save_page_as_pdf again for a page left without a file
C1_Witness ==
    /\ run > 1
    /\ pc = "done"
    /\ \E i \in skipped : ArtifactIn(fsPrev, i)
    /\ \E j \in ItemIds :
          ~ArtifactIn(fsPrev, j) /\ <<j, "save_page_as_pdf">> \in calls

\* ------------------------------------------------------------------- C2
\* C2: when download_file returns False, whatever the point of failure
\* (status, network error after some chunks, disk error), no file exists
\* at filepath.
C2_PartialWriteSafety ==
    (pc = "after_download" /\ ~dlResult) =>
        SavePath(CurItem) \notin DOMAIN fs

\* download_file has just returned False after chunks had been written
C2_Witness ==
    /\ pc = "after_download"
    /\ ~dlResult
    /\ written > 0
    /\ SavePath(CurItem) \notin DOMAIN fs

\* ------------------------------------------------------------------- C3
\* C3 as stated: when get_module_items() raises for a module, the later
\* modules of the same course are still traversed.
C3_Original ==
    \A m \in ModuleIds :
        (<<m, "get_module_items">> \in moduleErr /\ CourseLeft(CourseOf(m)))
            => LaterIn(ModulesOf[CourseOf(m)], m) \subseteq reachedMods

\* ------------------------------------------------------------------- C4
\* C4: when get_modules() raises for a course, the course is abandoned
\* with a warning, the run does not end there, every later course is
\* reached, and the items of a later course that has no listing failure
\* of its own are all processed.
C4_CourseContainment ==
    \A c \in courseErr :
        /\ c \in warned
        /\ pc # "crashed"
        /\ pc = "done" =>
              \A d \in LaterIn(Courses, c) :
                  /\ d \in reachedCourses
                  /\ (d \notin warned /\ remote.cname[d] # NoName) =>
                        \A m \in Range(ModulesOf[d]) :
                            Range(ItemsOf[m]) \subseteq visited

\* the run is over, get_modules() raised for course c1, and the page of
\* course c2 was rendered to its file in this run
C4_Witness ==
    /\ pc = "done"
    /\ "c1" \in courseErr
    /\ "i4" \in visited
    /\ SavePath("i4") \in DOMAIN fs
    /\ fs[SavePath("i4")].run = run

\* ------------------------------------------------------------------- C5
\* C5: an error raised while one File or Page item is processed stops
\* only that item: once the item's course has been left, every later item
\* of the item's module was reached, and so was every later module of the
\* course up to the first module whose own makedirs or listing raised;
\* the run does not end there, and at its end every later course was
\* reached.
C5_ItemContainment ==
    \A i \in failed :
        LET m == ModuleOf(i)
            c == CourseOf(m)
        IN  /\ pc # "crashed"
            /\ CourseLeft(c) =>
                  /\ LaterIn(ItemsOf[m], i) \subseteq visited
                  /\ \A n \in LaterIn(ModulesOf[c], m) :
                        (\A k \in Between(ModulesOf[c], m, n) :
                            \A e \in moduleErr : e[1] # k)
                        => n \in reachedMods
            /\ pc = "done" => LaterIn(Courses, c) \subseteq reachedCourses

\* the run is over; item i1 failed, and item i2 of the same module, the
\* next module and the item of the next course were all reached
C5_Witness ==
    /\ pc = "done"
    /\ "i1" \in failed
    /\ "i2" \in visited
    /\ "m2" \in reachedMods
    /\ "i4" \in visited

\* ------------------------------------------------------------------- C6
\* C6 as stated: in a later run, a .doc/.docx item whose source file was
\* left by an earlier run and whose .pdf does not exist gets
\* convert_docx_to_pdf called on the source and no download_file call.
C6_Original ==
    \A i \in visited :
        (/\ run > 1
         /\ IsOffice(i)
         /\ i \notin failed
         /\ SavePath(i) \in DOMAIN fsPrev
         /\ PdfPath(i) \notin DOMAIN fs)
        => /\ <<i, "convert_docx_to_pdf">> \in calls
           /\ <<i, "download_file">> \notin calls

\* ------------------------------------------------------------------- C7
\* C7 as stated: every ExternalUrl item the traversal has passed has a
\* link artifact of its own on disk.
C7_Original ==
    \A i \in visited :
        remote.item[i].type = "ExternalUrl" =>
            \E p \in DOMAIN fs : fs[p].by = i

\* ------------------------------------------------------------------- C8
\* C8 as stated: after the run was cancelled by an interrupt signal, no
\* partially written file remains under the output root.
C8_Original ==
    pc = "interrupted" => \A p \in DOMAIN fs : fs[p].st = "complete"

\* ------------------------------------------------------------------- C9
\* two distinct items of one module resolve to a common target path
Collide(i, j) ==
    /\ i # j
    /\ ModuleOf(i) = ModuleOf(j)
    /\ Targets(i) \cap Targets(j) # {}

\* C9: when two items of the same module resolve to the same target path,
\* no step overwrites or deletes a file written for one of them, except
\* the steps of that item's own running download_file call, and no step
\* taken while items are processed ends the run with an uncaught error.
C9_NoOverwrite ==
    [][\A i, j \in ItemIds :
          Collide(i, j) =>
              /\ InItemLoop => pc' # "crashed"
              /\ \A p \in DOMAIN fs :
                    fs[p].by = i =>
                        \/ p \in DOMAIN fs' /\ fs'[p] = fs[p]
                        \/ InDownload /\ CurItem = i /\ fs[p].run = run]_vars

\* two items of one module share a target path; the file there was written
\* for the first and the second was skipped
C9_Witness ==
    \E i, j \in ItemIds :
        /\ Collide(i, j)
        /\ j \in skipped
        /\ \E p \in Targets(i) \cap Targets(j) :
              p \in DOMAIN fs /\ fs[p].by = i /\ fs[p].st = "complete"

\* ------------------------------------------------------------------ C10
\* C10 as stated: the course directory name, the module directory name and
\* the item base name computed so far are all non-empty.
C10_Original ==
    /\ \A c \in reachedCourses :
          remote.cname[c] # NoName => SafeCourseName(c) # <<>>
    /\ \A m \in reachedMods : SafeModuleName(m) # <<>>
    /\ \A i \in visited : CleanTitle(i) # <<>>

\* ------------------------------------------------------------------ C11
\* C11: two distinct items of one module whose titles both sanitize to
\* the empty string get distinct base names, each carrying the item's own
\* id, and therefore distinct target paths.
C11_UniqueFallback ==
    \A i, j \in visited :
        (/\ i # j
         /\ ModuleOf(i) = ModuleOf(j)
         /\ sanitize_filename(remote.item[i].title) = <<>>
         /\ sanitize_filename(remote.item[j].title) = <<>>)
        => /\ CleanTitle(i) # CleanTitle(j)
           /\ CleanTitle(i) = <<"item_", i>>
           /\ SavePath(i) # SavePath(j)

\* two items of one module with titles made of illegal characters were
\* both archived, each to a file of its own
C11_Witness ==
    \E i, j \in visited :
        /\ i # j
        /\ ModuleOf(i) = ModuleOf(j)
        /\ sanitize_filename(remote.item[i].title) = <<>>
        /\ sanitize_filename(remote.item[j].title) = <<>>
        /\ SavePath(i) \in DOMAIN fs /\ fs[SavePath(i)].by = i
        /\ SavePath(j) \in DOMAIN fs /\ fs[SavePath(j)].by = j

\* ------------------------------------------------------------------ C12
\* C12 as stated: a run that has authenticated never ends without the
\* summary because of an error (it may only be killed from outside).
C12_Original == authed => pc # "crashed"

\* ------------------------------------------------------------------ C13
\* C13: once save_page_as_pdf has been called for a Page whose body is
\* empty or missing, no file written for that item exists at the output
\* path or anywhere else, and the item is not reported as failed.
C13_EmptyPageSkip ==
    \A i \in ItemIds :
        (/\ <<i, "save_page_as_pdf">> \in calls
         /\ remote.item[i].body = "")
        => /\ i \notin failed
           /\ SavePath(i) \notin DOMAIN fs
           /\ \A p \in DOMAIN fs : fs[p].by # i

\* save_page_as_pdf has returned for a page with an empty body and the
\* item loop has moved on; nothing is on disk for it
C13_Witness ==
    \E i \in ItemIds :
        /\ <<i, "save_page_as_pdf">> \in calls
        /\ remote.item[i].body = ""
        /\ pc = "item_loop"
        /\ SavePath(i) \notin DOMAIN fs
        /\ i \notin failed

\* ------------------------------------------------------------------ C14
\* convert_docx_to_pdf was called for item i and reported a failure
ConvertFailed(i) ==
    /\ <<i, "convert_docx_to_pdf">> \in calls
    /\ i \in failed

\* C14: after convert_docx_to_pdf failed for a downloaded .doc/.docx
\* item, the complete source file written by that download is still at
\* its path, the run has not ended with an error, and once the course has
\* been left the later items of the module were reached.
C14_SourceKept ==
    \A i \in ItemIds :
        ConvertFailed(i) =>
            /\ SavePath(i) \in DOMAIN fs
            /\ fs[SavePath(i)] = [by |-> i, run |-> run, st |-> "complete"]
            /\ pc # "crashed"
            /\ i \notin warned
            /\ CourseLeft(CourseOf(ModuleOf(i))) =>
                  LaterIn(ItemsOf[ModuleOf(i)], i) \subseteq visited

\* the conversion of i1 failed, its source is on disk and the next item
\* of the module has been reached
C14_Witness ==
    /\ ConvertFailed("i1")
    /\ SavePath("i1") \in DOMAIN fs
    /\ "i2" \in visited

\* ------------------------------------------------------------------ C15
\* C15: as long as the run holds no authenticated user, no step lists a
\* course, a module or an item, calls a writer, or creates, changes or
\* removes a file or directory; a failed authentication leaves the run
\* without a user and at its end.
C15_AuthFatal ==
    [][/\ pc' = "auth_failed" => ~authed'
       /\ ~authed' =>
             /\ fs' = fs
             /\ dirs' = dirs
             /\ reachedCourses' = {} /\ reachedMods' = {}
             /\ visited' = {} /\ calls' = {}
             /\ pc' \in {"start", "auth_failed", "interrupted"}]_vars

\* a later run failed to authenticate; the files of the earlier run are
\* all there and nothing was listed
C15_Witness ==
    /\ pc = "auth_failed"
    /\ run > 1
    /\ DOMAIN fs # {}
    /\ fs = fsPrev
    /\ reachedCourses = {}

\* ------------------------------------------------------------------ C16
\* C16 as stated: after save_page_as_pdf or convert_docx_to_pdf reported
\* a failure for an item, no file written by that call remains at the
\* item's .pdf path.
C16_Original ==
    \A i \in failed :
        (\/ <<i, "save_page_as_pdf">> \in calls
         \/ <<i, "convert_docx_to_pdf">> \in calls)
        => ~(/\ PdfPath(i) \in DOMAIN fs
             /\ fs[PdfPath(i)].by = i
             /\ fs[PdfPath(i)].run = run)

\* ------------------------------------------------------------------ C17
\* C17: whenever the item loop handles a File item whose metadata lookup
\* succeeds, the item is skipped, with no download, exactly when something
\* exists at its original-extension path or its extension is .doc/.docx
\* and something exists at the .pdf path; otherwise download_file is
\* called.
C17_DualCheck ==
    [][(/\ pc = "item_loop"
        /\ ii <= Len(ItemsOf[CurModule])
        /\ IsFile(CurItem)
        /\ CurItem \in visited'
        /\ CurItem \notin failed')
       => LET found ==
                  \/ PathExists(SavePath(CurItem))
                  \/ /\ FileExt(CurItem) \in {<<".", "doc">>, <<".", "docx">>}
                     /\ PathExists(PdfPath(CurItem))
          IN  /\ (CurItem \in skipped') <=> found
              /\ (<<CurItem, "download_file">> \in calls') <=> ~found
              /\ found => fs' = fs /\ pc' = "item_loop"]_vars

\* an office item was skipped although its source file is absent: only
\* the .pdf of the same base name exists
C17_Witness ==
    \E i \in skipped :
        /\ IsOffice(i)
        /\ SavePath(i) \notin DOMAIN fs
        /\ PdfPath(i) \in DOMAIN fs
        /\ CallsOf(i) = {}

\* ------------------------------------------------------------------ C18
\* C18: in a run download_pandoc() is called at most once, never in a run
\* that follows a completed run (the binary is present by then), and
\* always before the first convert_docx_to_pdf call, at which time the
\* binary is installed.
C18_BootstrapOnce ==
    /\ bootstraps <= 1
    /\ run > 1 => bootstraps = 0
    /\ pc \in {"start", "pandoc"} => bootstraps = 0
    /\ (\E c \in calls : c[2] = "convert_docx_to_pdf") =>
          pandoc /\ pc \notin {"start", "pandoc"}

\* the binary was absent, was fetched once, and a conversion was then
\* started in the same run
C18_Witness ==
    /\ bootstraps = 1
    /\ pandoc
    /\ \E c \in calls : c[2] = "convert_docx_to_pdf"

\* ------------------------------------------------------------------ C19
\* C19: convert_docx_to_pdf is entered only straight after a download_file
\* call for the same .doc/.docx item returned True, so the complete source
\* written by that call is on disk; when download_file returns False for
\* such an item, the item is reported as failed, no conversion was
\* attempted, and nothing is at its source path or its .pdf path.
C19_ConvertAfterFetch ==
    /\ pc = "convert" =>
          /\ dlResult
          /\ <<CurItem, "download_file">> \in calls
    /\ \A c \in calls :
          c[2] = "convert_docx_to_pdf" =>
              /\ IsOffice(c[1])
              /\ <<c[1], "download_file">> \in calls
              /\ SavePath(c[1]) \in DOMAIN fs
              /\ fs[SavePath(c[1])] =
                    [by |-> c[1], run |-> run, st |-> "complete"]
    /\ (pc = "after_download" /\ ~dlResult /\ IsOffice(CurItem)) =>
          /\ CurItem \in failed
          /\ <<CurItem, "convert_docx_to_pdf">> \notin calls
          /\ SavePath(CurItem) \notin DOMAIN fs
          /\ PdfPath(CurItem) \notin DOMAIN fs

\* the download of a .docx item has just failed in the middle of the
\* stream; no conversion was attempted
C19_Witness ==
    /\ pc = "after_download"
    /\ ~dlResult
    /\ IsOffice(CurItem)
    /\ written > 0
    /\ <<CurItem, "convert_docx_to_pdf">> \notin calls

\* ------------------------------------------------------------------ C20
\* C20: no step changes or removes a file that is on disk, in this run or
\* a later one, except that a running download_file call completes or
\* removes the file it created itself; every write therefore goes to a
\* path at which no file existed.
C20_NeverTouched ==
    [][\A p \in DOMAIN fs :
          \/ p \in DOMAIN fs' /\ fs'[p] = fs[p]
          \/ /\ InDownload
             /\ p = SavePath(CurItem)
             /\ fs[p] = [by |-> CurItem, run |-> run, st |-> "partial"]]_vars

\* a later run is over: files written by an earlier run are still on
\* disk as written, next to files the later run added
C20_Witness ==
    /\ run > 1
    /\ pc = "done"
    /\ \E p \in DOMAIN fs : p \in DOMAIN fsPrev /\ fs[p] = fsPrev[p]
    /\ \E q \in DOMAIN fs : q \notin DOMAIN fsPrev /\ fs[q].run = run

====
